---- MODULE Spec2Model ----
(***************************************************************************)
(* A model of the ecsstatic vite plugin (src/package/vite.ts).             *)
(*                                                                         *)
(* Text is a sequence of tokens.  A token is a record with one field:      *)
(*   [c |-> s]    one character s of text (the two directive keywords      *)
(*                "@import" and "@use" are kept whole),                    *)
(*   [ref |-> n]  the interpolation ${n} of the identifier n,              *)
(*   [tt |-> e]   the interpolation of a nested tagged                     *)
(*                template expression e,                                   *)
(*   [sel |-> k]  the text of the selector reference of class name k,      *)
(*                ":where(.k)" or ".k",                                    *)
(*   [cls |-> k]  the text of class name k, "<prefix>-<hash>".             *)
(***************************************************************************)
EXTENDS Integers, Sequences, FiniteSets, TLC

VARIABLES
    cssList,        \* the stylesheet registry: virtual path -> css
    viteConfigObj,  \* the resolved vite config, NoValue before configResolved
    options,        \* evaluateExpressions / resolveImports of this plugin instance
    tasks,          \* transforms suspended at their await, by file id
    last,           \* what the most recent hook call was given and returned
    started,        \* the number of transform calls so far
    writes,         \* every cssList.set since the registry was last cleared
    hashTrims,      \* whether hash.js trims the text it is given before hashing it
    probe           \* input and output of the pure functions checked on their own

vars == <<cssList, viteConfigObj, options, tasks, last, started, writes, hashTrims, probe>>

NoValue == [none |-> TRUE]

\* ------------------------------------------------------------------ bounds

\* longest resolved body handed to processCss on its own
MaxLen == 4
\* most tagged template expressions in one file
MaxSites == 2
\* most transform calls between two clears of the registry
MaxTransforms == 2

\* ------------------------------------------------------------------ text

Ch(s) == [c |-> s]
Ref(n) == [ref |-> n]
Tpl(e) == [tt |-> e]
Sel(k, where) == [sel |-> k, where |-> where]
Cls(k) == [cls |-> k]

IsCh(t, s) == "c" \in DOMAIN t /\ t.c = s

\* String.prototype.trim removes white space and line terminators
IsSpace(t) == "c" \in DOMAIN t /\ t.c \in {" ", "\n", "\r"}

RECURSIVE TrimStart(_)
TrimStart(s) ==
    IF s # <<>> /\ IsSpace(Head(s)) THEN TrimStart(Tail(s)) ELSE s

RECURSIVE TrimEnd(_)
TrimEnd(s) ==
    IF s # <<>> /\ IsSpace(s[Len(s)]) THEN TrimEnd(SubSeq(s, 1, Len(s) - 1)) ELSE s

trim(s) == TrimStart(TrimEnd(s))

\* String.prototype.slice(from, to) with 0 <= from, indices counted from 0
slice(s, from, to) ==
    LET hi == IF to < 0 THEN 0 ELSE IF to > Len(s) THEN Len(s) ELSE to
    IN  IF from >= hi THEN <<>> ELSE SubSeq(s, from + 1, hi)

\* String.prototype.split(/\r\n|\r|\n/g): acc is the line being read
RECURSIVE SplitFrom(_, _)
SplitFrom(s, acc) ==
    IF s = <<>> THEN <<acc>>
    ELSE IF IsCh(Head(s), "\r") /\ Len(s) >= 2 /\ IsCh(s[2], "\n")
         THEN <<acc>> \o SplitFrom(Tail(Tail(s)), <<>>)
    ELSE IF IsCh(Head(s), "\r") \/ IsCh(Head(s), "\n")
         THEN <<acc>> \o SplitFrom(Tail(s), <<>>)
    ELSE SplitFrom(Tail(s), Append(acc, Head(s)))

split(s) == SplitFrom(s, <<>>)

\* Array.prototype.join('\n')
RECURSIVE join(_)
join(lines) ==
    IF lines = <<>> THEN <<>>
    ELSE IF Len(lines) = 1 THEN lines[1]
    ELSE lines[1] \o <<Ch("\n")>> \o join(Tail(lines))

\* Array.prototype.filter
filter(seq, Keep(_)) == SelectSeq(seq, Keep)

\* ------------------------------------------------------------------ hash.js

\* The content hash; hash.js is not among the sources.  Distinct texts have
\* distinct hashes, so the digest is identified with the text it was computed
\* from.  processCss hands hash the body as it is, untrimmed: whether two
\* bodies that are equal after trimming hash equally is decided inside
\* hash.js, and both outcomes are kept.
hash(str) == [digest |-> IF hashTrims THEN trim(str) ELSE str]

\* ------------------------------------------------------------------ processCss

isImportOrUse(line) ==
    LET t == trim(line)
    IN  t # <<>> /\ (IsCh(t[1], "@import") \/ IsCh(t[1], "@use"))

isNotImportOrUse(line) == ~isImportOrUse(line)

\* postcss rejects a stylesheet whose braces do not balance
RECURSIVE Depths(_, _)
Depths(s, d) ==
    IF s = <<>> THEN <<d>>
    ELSE LET e == IF IsCh(Head(s), "{") THEN d + 1
                  ELSE IF IsCh(Head(s), "}") THEN d - 1 ELSE d
         IN  <<d>> \o Depths(Tail(s), e)

postcssThrows(text) ==
    LET ds == Depths(text, 0)
    IN  ds[Len(ds)] # 0 \/ \E i \in 1..Len(ds) : ds[i] < 0

\* postcss(plugins).process(text, options).css: the processed text is kept as
\* the text it was made from together with the pass that made it
postcss(text, isScss) ==
    [pass |-> IF isScss THEN "scss" ELSE "nested", text |-> text]

className_isScss(templateContents, originalName, isScss) ==
    [prefix |-> IF isScss THEN "scss" ELSE originalName, hash |-> hash(templateContents)]

className(templateContents, originalName, isScss) ==
    [prefix |-> originalName, hash |-> hash(templateContents)]

importsAndUses_untrimmed(templateContents) ==
    LET StartsWithDirective(line) ==
            line # <<>> /\ (IsCh(line[1], "@import") \/ IsCh(line[1], "@use"))
    IN  trim(join(filter(split(templateContents), StartsWithDirective)))

importsAndUses(templateContents) ==
    trim(join(filter(split(templateContents), isImportOrUse)))

codeWithoutImportsAndUses(templateContents) ==
    join(filter(split(templateContents), isNotImportOrUse))

unprocessedCss(templateContents, name) ==
    importsAndUses(templateContents)
        \o <<Ch("\n"), Ch("."), Cls(name), Ch("{")>>
        \o codeWithoutImportsAndUses(templateContents)
        \o <<Ch("}")>>

processCss(templateContents, originalName, isScss) ==
    LET name == className(templateContents, originalName, isScss)
        text == unprocessedCss(templateContents, name)
    IN  IF postcssThrows(text)
        THEN [threw |-> TRUE]
        ELSE [threw |-> FALSE,
              css |-> postcss(text, isScss),
              className |-> name,
              unprocessedCss |-> text]

\* ------------------------------------------------------------------ the parsed file

\* A file is [imports |-> import declarations, body |-> tagged template
\* expressions of the top level statements, in source order].  A tagged
\* template expression is [tag, ctx, quasi]: ctx is its parent node, quasi the
\* tokens between its two backticks.
Pkg == "@acab/ecsstatic"
Balloon == "balloon"
NoName == ""
\* the delimiter of a template literal
Backtick == [c |-> "backtick"]

IsInterpolation(t) == "ref" \in DOMAIN t \/ "tt" \in DOMAIN t

\* source width of an expression: tag, backtick, quasi, backtick; a nested
\* expression sits between "${" and "}"
RECURSIVE Width(_)
RECURSIVE QuasiWidth(_)
Width(e) == 3 + QuasiWidth(e.quasi)
QuasiWidth(q) ==
    IF q = <<>> THEN 0
    ELSE (IF "tt" \in DOMAIN Head(q) THEN 2 + Width(Head(q).tt) ELSE 1)
         + QuasiWidth(Tail(q))

\* the TaggedTemplateExpression node the parser makes of e at offset start
Node(e, start) ==
    [start |-> start,
     end |-> start + Width(e),
     tag |-> e.tag,
     parent |-> e.ctx,
     quasi |-> [start |-> start + 1,
                end |-> start + Width(e),
                expressions |-> Len(SelectSeq(e.quasi, IsInterpolation)),
                source |-> <<Backtick>> \o e.quasi \o <<Backtick>>]]

\* acorn-walk's ancestor(): the base visitor walks a node's children, then the
\* callback of the node's type is called
RECURSIVE WalkExpr(_, _)
RECURSIVE WalkQuasi(_, _)
WalkExpr(e, start) == WalkQuasi(e.quasi, start + 2) \o <<Node(e, start)>>
WalkQuasi(q, pos) ==
    IF q = <<>> THEN <<>>
    ELSE IF "tt" \in DOMAIN Head(q)
         THEN WalkExpr(Head(q).tt, pos + 1)
                  \o WalkQuasi(Tail(q), pos + 2 + Width(Head(q).tt))
    ELSE WalkQuasi(Tail(q), pos + 1)

RECURSIVE WalkBody(_, _)
WalkBody(body, pos) ==
    IF body = <<>> THEN <<>>
    ELSE WalkExpr(Head(body), pos) \o WalkBody(Tail(body), pos + Width(Head(body)))

\* a walk that calls the callback of a node before it walks the children
RECURSIVE PreExpr(_, _)
RECURSIVE PreQuasi(_, _)
PreExpr(e, start) == <<Node(e, start)>> \o PreQuasi(e.quasi, start + 2)
PreQuasi(q, pos) ==
    IF q = <<>> THEN <<>>
    ELSE IF "tt" \in DOMAIN Head(q)
         THEN PreExpr(Head(q).tt, pos + 1)
                  \o PreQuasi(Tail(q), pos + 2 + Width(Head(q).tt))
    ELSE PreQuasi(Tail(q), pos + 1)

RECURSIVE PreBody(_, _)
PreBody(body, pos) ==
    IF body = <<>> THEN <<>>
    ELSE PreExpr(Head(body), pos) \o PreBody(Tail(body), pos + Width(Head(body)))

walk_preorder(ast) == PreBody(ast.body, Len(ast.imports))

\* every TaggedTemplateExpression of the file, in the order walk() visits them;
\* import declaration k takes offset k - 1
walk(ast) == WalkBody(ast.body, Len(ast.imports))

\* ------------------------------------------------------------------ findEcsstaticImports

\* specifiers.some(({ imported }) => ['css', 'scss'].includes(imported.name)):
\* "throw" when a specifier without `imported` is reached before a match
RECURSIVE SomeRecognized(_)
SomeRecognized(specifiers) ==
    IF specifiers = <<>> THEN "false"
    ELSE IF Head(specifiers).type # "ImportSpecifier" THEN "throw"
    ELSE IF Head(specifiers).imported \in {"css", "scss"} THEN "true"
    ELSE SomeRecognized(Tail(specifiers))

\* the local name of the last ImportSpecifier that imports `imported`
RECURSIVE LocalOf(_, _, _)
LocalOf(specifiers, imported, sofar) ==
    IF specifiers = <<>> THEN sofar
    ELSE LET s == Head(specifiers)
         IN  LocalOf(Tail(specifiers), imported,
                     IF s.type = "ImportSpecifier" /\ s.imported = imported
                     THEN s.local ELSE sofar)

RECURSIVE ImportsFrom(_, _, _)
ImportsFrom(imports, k, acc) ==
    IF k > Len(imports) \/ acc.threw THEN acc
    ELSE LET node == imports[k]
         IN  IF node.source # Pkg THEN ImportsFrom(imports, k + 1, acc)
             ELSE LET some == SomeRecognized(node.specifiers)
                  IN  IF some = "throw" THEN [acc EXCEPT !.threw = TRUE]
                      ELSE ImportsFrom(imports, k + 1,
                             [threw |-> FALSE,
                              cssImportName |->
                                  LocalOf(node.specifiers, "css", acc.cssImportName),
                              scssImportName |->
                                  LocalOf(node.specifiers, "scss", acc.scssImportName),
                              statements |->
                                  IF some = "true"
                                  THEN Append(acc.statements, [start |-> k - 1, end |-> k])
                                  ELSE acc.statements])

findEcsstaticImports(ast) ==
    ImportsFrom(ast.imports, 1,
                [threw |-> FALSE, cssImportName |-> NoName, scssImportName |-> NoName,
                 statements |-> <<>>])

\* ------------------------------------------------------------------ findCssTaggedTemplateLiterals

\* the name the callback gives a node from the second last ancestor
originalNameOf(node) ==
    LET prevNode == node.parent
    IN  IF prevNode.type = "VariableDeclarator"
           /\ prevNode.idType = "Identifier" /\ prevNode.isInit
        THEN prevNode.name
        ELSE IF prevNode.type = "Property"
                /\ prevNode.isValue /\ prevNode.keyType = "Identifier"
        THEN prevNode.name
        ELSE NoName

Named(node) ==
    [start |-> node.start, end |-> node.end, tag |-> node.tag, quasi |-> node.quasi,
     _originalName |-> originalNameOf(node)]

RECURSIVE Collect(_, _)
Collect(visited, tagNames) ==
    IF visited = <<>> THEN <<>>
    ELSE LET node == Head(visited)
         IN  (IF node.tag.type = "Identifier" /\ node.tag.name \in tagNames
              THEN <<Named(node)>> ELSE <<>>)
             \o Collect(Tail(visited), tagNames)

findCssTaggedTemplateLiterals(ast, tagNames) == Collect(walk(ast), tagNames)

\* ------------------------------------------------------------------ evalWithEsbuild

useWhere == TRUE

\* the value of the dummy css / scss of loadDummyEcsstatic
DummyTag == <<[fn |-> Balloon]>>

\* the value the program gives `name`: its last declaration wins
RECURSIVE Lookup(_, _, _)
Lookup(decls, name, sofar) ==
    IF decls = <<>> THEN sofar
    ELSE Lookup(Tail(decls), name,
                IF Head(decls).name = name THEN [bound |-> TRUE, value |-> Head(decls).value]
                ELSE sofar)

valueOf(decls, name) == Lookup(decls, name, [bound |-> FALSE])

\* the string a template literal evaluates to under the declarations
RECURSIVE EvalQuasi(_, _)
EvalQuasi(q, decls) ==
    IF q = <<>> THEN [threw |-> FALSE, value |-> <<>>]
    ELSE LET t == Head(q)
             first ==
                 IF "ref" \in DOMAIN t
                 THEN LET v == valueOf(decls, t.ref)
                      IN  IF v.bound THEN [threw |-> FALSE, value |-> v.value]
                          ELSE [threw |-> TRUE]
                 ELSE IF "tt" \in DOMAIN t
                 THEN LET f == IF t.tt.tag.type = "Identifier"
                               THEN valueOf(decls, t.tt.tag.name)
                               ELSE [bound |-> FALSE]
                          args == EvalQuasi(t.tt.quasi, decls)
                      IN  IF f.bound /\ f.value = DummyTag /\ ~args.threw
                          THEN [threw |-> FALSE, value |-> <<Ch(Balloon)>>]
                          ELSE [threw |-> TRUE]
                 ELSE [threw |-> FALSE, value |-> <<t>>]
             rest == EvalQuasi(Tail(q), decls)
         IN  IF first.threw \/ rest.threw THEN [threw |-> TRUE]
             ELSE [threw |-> FALSE, value |-> first.value \o rest.value]

\* Object.entries(generatedClasses).map(([key, value]) => `var ${key} = '${value}';`)
generatedClassesDecls(generatedClasses) ==
    [i \in 1..Len(generatedClasses) |->
        [name |-> generatedClasses[i].key, value |-> generatedClasses[i].value]]

program_outer_last(allVarDeclarations, generatedClasses) ==
    generatedClassesDecls(generatedClasses) \o allVarDeclarations

\* the declarations of the synthetic program, in the order they are written
program(allVarDeclarations, generatedClasses) ==
    allVarDeclarations \o generatedClassesDecls(generatedClasses)

evalWithEsbuild(expression, allVarDeclarations, generatedClasses) ==
    EvalQuasi(SubSeq(expression, 2, Len(expression) - 1),
              program(allVarDeclarations, generatedClasses))

processTemplateLiteral(rawTemplate, inlinedVars, generatedClasses) ==
    evalWithEsbuild(rawTemplate, inlinedVars, generatedClasses)

\* ------------------------------------------------------------------ inlineImportsUsingEsbuild

RECURSIVE OuterDecls(_)
OuterDecls(body) ==
    IF body = <<>> THEN <<>>
    ELSE LET c == Head(body).ctx
         IN  (IF c.type = "VariableDeclarator" /\ c.idType = "Identifier"
              THEN <<[name |-> c.name, value |-> <<Ch(Balloon)>>]>> ELSE <<>>)
             \o OuterDecls(Tail(body))

RECURSIVE TagDecls(_)
TagDecls(imports) ==
    IF imports = <<>> THEN <<>>
    ELSE LET node == Head(imports)
             named == SelectSeq(node.specifiers,
                                LAMBDA sp : sp.type = "ImportSpecifier")
         IN  (IF node.source = Pkg
              THEN [i \in 1..Len(named) |-> [name |-> named[i].local, value |-> DummyTag]]
              ELSE <<>>)
             \o TagDecls(Tail(imports))

\* the bundle esbuild makes of the file: the dummy tags and the file's own
\* top level variables, each holding what the dummy tag returns
bundleOf(code) == TagDecls(code.imports) \o OuterDecls(code.body)

\* what the bundling may resolve to: the bundle or, when all of the file is
\* dropped as dead code, the empty text
inlineResults(code) == {<<>>, bundleOf(code)}

\* ------------------------------------------------------------------ paths

toLowerCase(str) ==
    CASE str = "B" -> "b"
      [] str = "R" -> "r"
      [] OTHER -> str

\* `${className}.acab.${extension}`.toLowerCase(); a digest has no upper case
cssFilenameOf(name, extension) ==
    [prefix |-> toLowerCase(name.prefix), hash |-> name.hash, ext |-> extension]

\* a path is its directory segments and its file name; the separators are not
\* kept, so only the lower-casing remains
normalizePath(original) ==
    [lead |-> original.lead,
     dir |-> [i \in 1..Len(original.dir) |-> toLowerCase(original.dir[i])],
     file |-> [original.file EXCEPT !.prefix = toLowerCase(original.file.prefix)]]

\* Map.prototype.set on the registry
registrySet(reg, key, value) ==
    [k \in DOMAIN reg \cup {key} |-> IF k = key THEN value ELSE reg[k]]

\* Map.prototype.set on generatedClasses, kept as its entries in insertion order
RECURSIVE IndexOfKey(_, _, _)
IndexOfKey(entries, key, i) ==
    IF i > Len(entries) THEN 0
    ELSE IF entries[i].key = key THEN i ELSE IndexOfKey(entries, key, i + 1)

mapSet(entries, key, value) ==
    LET i == IndexOfKey(entries, key, 1)
    IN  IF i = 0 THEN Append(entries, [key |-> key, value |-> value])
        ELSE [entries EXCEPT ![i] = [key |-> key, value |-> value]]

\* ------------------------------------------------------------------ transform

\* `[id] = id.split('?')`
splitQuery(id) == [lead |-> id.lead, dir |-> id.dir, file |-> id.file]

\* /node_modules/.test(id)
inNodeModules(id) == \E i \in 1..Len(id.dir) : id.dir[i] = "node_modules"

\* /(c|m)*(j|t)s(x)*$/.test(id)
isScript(id) == id.file.ext \in {"js", "ts", "jsx", "tsx", "mjs", "cjs", "mts", "cts"}

\* the locals of a transform call that is past its early returns:
\* i is the index of the node the for loop is at
Locals(code, id, found, nodes) ==
    [code |-> code, id |-> id, nodes |-> nodes, i |-> 1,
     scssImportName |-> found.scssImportName,
     statements |-> found.statements,
     inlinedVars |-> <<>>,
     generatedClasses |-> <<>>,
     appended |-> <<>>,
     updated |-> <<>>,
     log |-> <<>>,
     calls |-> 0]

rawTemplateOf(node) == trim(node.quasi.source)

\* rawTemplate.slice(1, rawTemplate.length - 2)
literalText(rawTemplate) == slice(rawTemplate, 1, Len(rawTemplate) - 2)

\* the for loop from node st.i on, up to the next await, a throw or the end.
\* resumed: the loop continues after the await of node st.i
RECURSIVE RunLoop(_, _, _, _)
RunLoop(st, reg, wr, resumed) ==
    IF st.i > Len(st.nodes)
    THEN [status |-> "rewritten", st |-> st, reg |-> reg, wr |-> wr]
    ELSE
    LET node == st.nodes[st.i]
        originalName == IF node._originalName # NoName THEN node._originalName ELSE Balloon
        isScss == node.tag.type = "Identifier" /\ node.tag.name = st.scssImportName
    IN  IF ~resumed /\ node.quasi.expressions > 0 /\ options.resolveImports
           /\ st.inlinedVars = <<>>
        THEN [status |-> "await", st |-> [st EXCEPT !.calls = @ + 1],
              reg |-> reg, wr |-> wr]
        ELSE
        LET rawTemplate == rawTemplateOf(node)
            evaluated == options.evaluateExpressions /\ node.quasi.expressions > 0
            templateContents ==
                IF evaluated
                THEN processTemplateLiteral(rawTemplate, st.inlinedVars, st.generatedClasses)
                ELSE [threw |-> FALSE, value |-> literalText(rawTemplate)]
            entry == [node |-> node, evaluated |-> evaluated,
                      inlinedVars |-> st.inlinedVars,
                      generatedClasses |-> st.generatedClasses]
        IN  IF templateContents.threw
            THEN [status |-> "throw",
                  st |-> [st EXCEPT !.log = Append(@, entry)], reg |-> reg, wr |-> wr]
            ELSE
            LET out == processCss(templateContents.value, originalName, isScss)
            IN  IF out.threw
                THEN [status |-> "throw",
                      st |-> [st EXCEPT !.log =
                                 Append(@, entry @@
                                           [templateContents |-> templateContents.value])],
                      reg |-> reg, wr |-> wr]
                ELSE
                LET extension == IF isScss THEN "scss" ELSE "css"
                    cssFilename == cssFilenameOf(out.className, extension)
                    fullCssPath ==
                        normalizePath([lead |-> st.id.lead, dir |-> st.id.dir,
                                       file |-> cssFilename])
                    done == entry @@ [templateContents |-> templateContents.value,
                                      className |-> out.className,
                                      fullCssPath |-> fullCssPath,
                                      css |-> out.css]
                IN  RunLoop(
                      [st EXCEPT
                         !.i = @ + 1,
                         !.generatedClasses =
                             IF originalName # Balloon
                             THEN mapSet(@, originalName,
                                         <<Sel(out.className, useWhere)>>)
                             ELSE @,
                         !.appended = Append(@, cssFilename),
                         !.updated = Append(@, [start |-> node.start, end |-> node.end,
                                                content |-> out.className]),
                         !.log = Append(@, done)],
                      registrySet(reg, fullCssPath, out.css),
                      wr \cup {[path |-> fullCssPath, css |-> out.css, id |-> st.id,
                                originalName |-> originalName,
                                templateContents |-> templateContents.value,
                                isScss |-> isScss,
                                className |-> out.className]},
                      FALSE)

\* transform(code, id) up to its first await or its return
transformCall(code, rawId) ==
    LET id == splitQuery(rawId)
        gaveUp(status, log) ==
            [status |-> status, st |-> [id |-> id, code |-> code, log |-> log, calls |-> 0],
             reg |-> cssList, wr |-> writes]
    IN  IF inNodeModules(id) \/ ~isScript(id) THEN gaveUp("unchanged", <<>>)
        ELSE
        LET found == findEcsstaticImports(code)
        IN  IF found.threw THEN gaveUp("throw", <<>>)
            ELSE IF Len(found.statements) = 0 THEN gaveUp("unchanged", <<>>)
            ELSE
            LET ecsstaticImportNames == {found.cssImportName, found.scssImportName} \ {NoName}
                cssTemplateLiterals ==
                    findCssTaggedTemplateLiterals(code, ecsstaticImportNames)
            IN  IF Len(cssTemplateLiterals) = 0 THEN gaveUp("unchanged", <<>>)
                ELSE RunLoop(Locals(code, id, found, cssTemplateLiterals),
                             cssList, writes, FALSE)

\* what a hook call leaves behind: the registry, the suspended call if it
\* awaits, and the record of the call
Settle(op, out) ==
    /\ cssList' = out.reg
    /\ writes' = out.wr
    /\ tasks' = IF out.status = "await"
                THEN [k \in DOMAIN tasks \cup {out.st.id} |->
                         IF k = out.st.id THEN out.st ELSE tasks[k]]
                ELSE [k \in DOMAIN tasks \ {out.st.id} |-> tasks[k]]
    /\ last' = [op |-> op, id |-> out.st.id, code |-> out.st.code,
                status |-> out.status,
                log |-> out.st.log,
                calls |-> out.st.calls,
                result |-> IF out.status = "rewritten"
                           THEN [appended |-> out.st.appended,
                                 updated |-> out.st.updated,
                                 removed |-> out.st.statements]
                           ELSE NoValue]

\* ------------------------------------------------------------------ inputs

Tag(n) == [type |-> "Identifier", name |-> n]
VarCtx(n) == [type |-> "VariableDeclarator", idType |-> "Identifier", isInit |-> TRUE,
              name |-> n]
PropCtx(n, keyType, isValue) ==
    [type |-> "Property", keyType |-> keyType, isValue |-> isValue, name |-> n]
OtherCtx == [type |-> "TemplateLiteral"]
Expr(tag, ctx, quasi) == [tag |-> tag, ctx |-> ctx, quasi |-> quasi]

Named_(imported, local) == [type |-> "ImportSpecifier", imported |-> imported, local |-> local]
Import(source, specifiers) == [source |-> source, specifiers |-> specifiers]

ImportBoth == <<Import(Pkg, <<Named_("css", "css"), Named_("scss", "scss")>>)>>
ImportNone == <<>>
ImportOther == <<Import(Pkg, <<Named_("keyframes", "css")>>)>>
ImportNamespace == <<Import(Pkg, <<[type |-> "ImportNamespaceSpecifier", local |-> "css"]>>)>>
ImportElsewhere == <<Import("elsewhere", <<Named_("css", "css")>>)>>
ImportScssOnly == <<Import(Pkg, <<Named_("scss", "scss")>>)>>

PlainB == Expr(Tag("css"), VarCtx("B"), <<Ch("a"), Ch(";")>>)
Plainb == Expr(Tag("css"), VarCtx("b"), <<Ch("a"), Ch(";")>>)
PlainAnon == Expr(Tag("css"), OtherCtx, <<Ch("a"), Ch(";")>>)
\* the body of PlainB after a leading blank
ScssB == Expr(Tag("scss"), VarCtx("B"), <<Ch(" "), Ch("a"), Ch(";")>>)
OtherB == Expr(Tag("css"), VarCtx("B"), <<Ch("c"), Ch(";")>>)
UsesB == Expr(Tag("css"), VarCtx("b"), <<Ref("B"), Ch("a"), Ch(";")>>)
Unbalanced == Expr(Tag("css"), VarCtx("B"), <<Ch("}"), Ch(";")>>)
NestsB == Expr(Tag("css"), OtherCtx, <<Tpl(OtherB), Ref("B"), Ch(";")>>)

Sites == {PlainB, Plainb, PlainAnon, ScssB, OtherB, UsesB, Unbalanced, NestsB}

RECURSIVE SeqsUpTo(_, _)
SeqsUpTo(S, n) ==
    IF n = 0 THEN {<<>>}
    ELSE LET shorter == SeqsUpTo(S, n - 1)
         IN  shorter \cup {Append(q, x) : q \in shorter, x \in S}

\* the files whose transform runs the for loop, and those that return early
Files ==
    {[imports |-> ImportBoth, body |-> b] : b \in SeqsUpTo(Sites, MaxSites)}
    \cup {[imports |-> i, body |-> b] :
            i \in {ImportNone, ImportOther, ImportNamespace, ImportElsewhere, ImportScssOnly},
            b \in {<<>>, <<PlainB>>, <<ScssB>>}}

SmallFiles == {f \in Files : Len(f.body) <= 1}

SourceFile(dir, base, ext, query) ==
    [lead |-> "/", dir |-> dir, file |-> [prefix |-> base, hash |-> NoValue, ext |-> ext],
     query |-> query]

Scripts == {SourceFile(<<"R">>, "x", "ts", ""), SourceFile(<<"r">>, "y", "tsx", "?v=1")}
NotScripts == {SourceFile(<<"R", "node_modules">>, "x", "ts", ""),
               SourceFile(<<"R">>, "x", "css", "")}

Root == <<"R">>

\* ------------------------------------------------------------------ the hooks

Init ==
    /\ cssList = <<>>
    /\ viteConfigObj = NoValue
    /\ options \in {[evaluateExpressions |-> TRUE, resolveImports |-> FALSE],
                    [evaluateExpressions |-> TRUE, resolveImports |-> TRUE],
                    [evaluateExpressions |-> FALSE, resolveImports |-> FALSE],
                    [evaluateExpressions |-> FALSE, resolveImports |-> TRUE]}
    /\ tasks = <<>>
    /\ last = [op |-> "ecsstatic"]
    /\ started = 0
    /\ writes = {}
    /\ hashTrims \in BOOLEAN
    /\ probe = NoValue

\* vite calls configResolved before any other hook
configResolved ==
    /\ viteConfigObj = NoValue
    /\ viteConfigObj' = [root |-> Root]
    /\ last' = [op |-> "configResolved"]
    /\ UNCHANGED <<hashTrims, cssList, options, tasks, started, writes, probe>>

buildStart_noclear ==
    /\ viteConfigObj # NoValue
    /\ last' = [op |-> "buildStart"]
    /\ writes' = {}
    /\ UNCHANGED <<hashTrims, cssList, viteConfigObj, options, tasks, started, probe>>

buildStart ==
    /\ viteConfigObj # NoValue
    /\ cssList' = <<>>
    /\ writes' = {}
    /\ last' = [op |-> "buildStart"]
    /\ UNCHANGED <<hashTrims, viteConfigObj, options, tasks, started, probe>>

buildEnd ==
    /\ viteConfigObj # NoValue
    /\ cssList' = <<>>
    /\ writes' = {}
    /\ last' = [op |-> "buildEnd"]
    /\ UNCHANGED <<hashTrims, viteConfigObj, options, tasks, started, probe>>

transformOf(files, ids) ==
    /\ viteConfigObj # NoValue
    /\ started < MaxTransforms
    /\ \E code \in files, id \in ids :
          /\ splitQuery(id) \notin DOMAIN tasks
          /\ Settle("transform", transformCall(code, id))
    /\ started' = started + 1
    /\ UNCHANGED <<hashTrims, viteConfigObj, options, probe>>

\* the ids vite hands to transform
SourceIds == Scripts \cup NotScripts

transform == transformOf(Files, SourceIds)

\* the await of inlineImportsUsingEsbuild resolves and the for loop goes on
inlineResolved ==
    /\ \E id \in DOMAIN tasks :
          \E text \in inlineResults(tasks[id].code) :
             Settle("resumed",
                    RunLoop([tasks[id] EXCEPT !.inlinedVars = text], cssList, writes, TRUE))
    /\ UNCHANGED <<hashTrims, viteConfigObj, options, started, probe>>

\* esbuild.build rejects and transform throws
inlineRejected ==
    /\ \E id \in DOMAIN tasks :
          Settle("resumed",
                 [status |-> "throw", st |-> tasks[id], reg |-> cssList, wr |-> writes])
    /\ UNCHANGED <<hashTrims, viteConfigObj, options, started, probe>>

NextFile ==
    \/ configResolved
    \/ buildStart
    \/ buildEnd
    \/ transform
    \/ inlineResolved
    \/ inlineRejected

SpecFile == Init /\ [][NextFile]_vars

\* ------------------------------------------------------------------ claims on one transform

\* the sites a transform call has gone through so far
Log == IF "log" \in DOMAIN last THEN last.log ELSE <<>>
Status == IF "status" \in DOMAIN last THEN last.status ELSE "none"

\* the text between the two backticks of a site
Between(node) == SubSeq(node.quasi.source, 2, Len(node.quasi.source) - 1)

\* C2: a site with no interpolation, and every site when evaluateExpressions
\* is off, is not evaluated and hands processCss the text between its two
\* backticks, no character dropped or added.
C2_Passthrough ==
    \A k \in 1..Len(Log) :
        (Log[k].node.quasi.expressions = 0 \/ ~options.evaluateExpressions)
            => /\ ~Log[k].evaluated
               /\ "templateContents" \in DOMAIN Log[k]
               /\ Log[k].templateContents = Between(Log[k].node)

\* C3: a transform that throws returns no rewritten source and leaves no
\* stylesheet entry of its earlier sites in the registry.
C3_NoPartialOutput ==
    Status = "throw" =>
        /\ last.result = NoValue
        /\ \A k \in 1..Len(Log) :
              "fullCssPath" \in DOMAIN Log[k] => Log[k].fullCssPath \notin DOMAIN cssList

\* the local names a file binds to css or scss of the style package
RecognizedLocals(code) ==
    {sp.local : sp \in
        UNION {{n.specifiers[i] : i \in 1..Len(n.specifiers)} :
                  n \in {code.imports[j] : j \in 1..Len(code.imports)} \cap
                        {m \in {code.imports[j] : j \in 1..Len(code.imports)} :
                            m.source = Pkg}}
        \cap {x \in UNION {{n.specifiers[i] : i \in 1..Len(n.specifiers)} :
                              n \in {code.imports[j] : j \in 1..Len(code.imports)}} :
                 x.type = "ImportSpecifier" /\ x.imported \in {"css", "scss"}}}

\* the tags of every tagged template of a file, nested ones included
RECURSIVE TagsIn(_)
TagsIn(q) ==
    IF q = <<>> THEN {}
    ELSE (IF "tt" \in DOMAIN Head(q)
          THEN {Head(q).tt.tag} \cup TagsIn(Head(q).tt.quasi) ELSE {})
         \cup TagsIn(Tail(q))

TagsOf(code) == TagsIn([i \in 1..Len(code.body) |-> Tpl(code.body[i])])

NothingToDo(code) ==
    \/ RecognizedLocals(code) = {}
    \/ ~\E t \in TagsOf(code) : t.type = "Identifier" /\ t.name \in RecognizedLocals(code)

\* C6: the transform of a file that imports nothing recognized, or has no
\* tagged template with a recognized tag, returns no rewritten source with
\* the file unchanged, and leaves the registry as it was.
C6_IdentityTransform ==
    [][(last'.op = "transform" /\ NothingToDo(last'.code))
          => (last'.status = "unchanged" /\ cssList' = cssList)]_vars

\* C10: the inlining step is invoked at most once in a transform of a file,
\* whatever it returns: at the first site with an interpolation, and only
\* with import resolution on.
C10_InlinedOnce ==
    /\ \A id \in DOMAIN tasks :
          LET t == tasks[id]
          IN  /\ t.calls <= 1
              /\ options.resolveImports
              /\ t.nodes[t.i].quasi.expressions > 0
              /\ \A j \in 1..(t.i - 1) : t.nodes[j].quasi.expressions = 0
    /\ "calls" \in DOMAIN last =>
          /\ last.calls <= 1
          /\ last.calls > 0 => options.resolveImports

\* C4: two registry writes, of different files, to one virtual path write the
\* same CSS text
C4_SamePathSameCss ==
    \A w1, w2 \in writes :
        (w1.id # w2.id /\ w1.path = w2.path) => w1.css = w2.css

joinDirname(importer, id) ==
    [lead |-> importer.lead, dir |-> importer.dir \o id.dir, file |-> id.file]

\* path.join(viteConfigObj.root, id.startsWith('/') ? id.slice(1) : id)
joinRoot(root, id) == [lead |-> "/", dir |-> root \o id.dir, file |-> id.file]

\* NoValue stands for the undefined and the null the hook declines with
resolveId(id, importer) ==
    IF importer = NoValue THEN NoValue
    ELSE IF id.file.ext \in {"css", "scss"}
    THEN LET absolute == IF id.lead = "." THEN normalizePath(joinDirname(importer, id))
                         ELSE id
             rooted == IF absolute \notin DOMAIN cssList
                       THEN normalizePath(joinRoot(viteConfigObj.root, absolute))
                       ELSE absolute
         IN  IF rooted \in DOMAIN cssList THEN rooted ELSE NoValue
    ELSE NoValue

load(id) == IF id \in DOMAIN cssList THEN cssList[id] ELSE NoValue

\* the specifiers and ids the host may ask for: those of the registered
\* stylesheets, written relative, absolute, from the root or bare, with the
\* case of the declared name, and a stylesheet nobody registered
FileNames ==
    {k.file : k \in DOMAIN cssList}
    \cup {[k.file EXCEPT !.prefix = "B"] : k \in DOMAIN cssList}
    \cup {[prefix |-> "b", hash |-> [digest |-> <<Ch("z")>>], ext |-> "css"],
          [prefix |-> "x", hash |-> NoValue, ext |-> "ts"]}

Specifiers ==
    {[lead |-> l, dir |-> d, file |-> f] :
        l \in {".", "/", ""}, d \in {<<>>, <<"r">>}, f \in FileNames}
    \cup DOMAIN cssList

Importers == {NoValue} \cup {splitQuery(f) : f \in Scripts}

resolveIdCall ==
    /\ viteConfigObj # NoValue
    /\ \E id \in Specifiers, importer \in Importers :
          last' = [op |-> "resolveId", result |-> resolveId(id, importer)]
    /\ UNCHANGED <<hashTrims, cssList, viteConfigObj, options, tasks, started, writes, probe>>

loadCall ==
    /\ viteConfigObj # NoValue
    /\ \E id \in Specifiers \cup DOMAIN cssList :
          last' = [op |-> "load", result |-> load(id)]
    /\ UNCHANGED <<hashTrims, cssList, viteConfigObj, options, tasks, started, writes, probe>>

transformSmall == transformOf(SmallFiles, Scripts)

Next ==
    \/ configResolved
    \/ buildStart
    \/ buildEnd
    \/ resolveIdCall
    \/ loadCall
    \/ transformSmall
    \/ inlineResolved
    \/ inlineRejected

Spec == Init /\ [][Next]_vars

\* C5: load returns CSS text only for an id a transform registered since the
\* registry was last cleared, and then the text last registered for it;
\* resolveId returns only ids that are registry keys; for every other id both
\* decline.
C5_OnlyRegistered ==
    /\ \A id \in Specifiers \cup DOMAIN cssList :
          load(id) # NoValue =>
              /\ \E w \in writes : w.path = id /\ w.css = load(id)
              /\ id \in DOMAIN cssList
    /\ viteConfigObj # NoValue =>
          \A id \in Specifiers, importer \in Importers :
              resolveId(id, importer) # NoValue =>
                  /\ resolveId(id, importer) \in DOMAIN cssList
                  /\ \E w \in writes : w.path = resolveId(id, importer)
    /\ (last.op \in {"load", "resolveId"} /\ last.result # NoValue)
          => \E w \in writes : w.path = last.result \/ w.css = last.result

\* a load that returned CSS text after a clear and a later transform
C5_Witness ==
    /\ last.op = "load"
    /\ last.result # NoValue
    /\ started = MaxTransforms
    /\ Cardinality(DOMAIN cssList) = 1

\* ------------------------------------------------------------------ the bindings in scope

\* generatedClasses as the set of its <<name, value>> pairs
Bindings(entries) == {<<entries[i].key, entries[i].value>> : i \in 1..Len(entries)}

\* the sites before the k-th that got a class name under a declared name
NamedBefore(log, k) ==
    {j \in 1..(k - 1) : "className" \in DOMAIN log[j] /\ log[j].node._originalName # NoName}

\* the binding each declared name has when the k-th site is reached: that of
\* the latest earlier site of the name
ExpectedBindings(log, k) ==
    {<<log[j].node._originalName, <<Sel(log[j].className, TRUE)>>>> :
        j \in {i \in NamedBefore(log, k) :
                 \A h \in NamedBefore(log, k) :
                    log[h].node._originalName = log[i].node._originalName => h <= i}}

\* C8: the bindings in scope at the k-th site are those of the named sites
\* before it in this transform, the latest of a name winning, and an
\* interpolated name that has such a binding resolves to it, whatever the
\* outer scope binds the name to.
C8_ForwardBindings ==
    \A k \in 1..Len(Log) :
        /\ Bindings(Log[k].generatedClasses) = ExpectedBindings(Log, k)
        /\ (Log[k].evaluated /\ "templateContents" \in DOMAIN Log[k]) =>
              /\ Len(Log[k].templateContents) = Len(Between(Log[k].node))
              /\ \A i \in 1..Len(Between(Log[k].node)) :
                    \A b \in Bindings(Log[k].generatedClasses) :
                        Between(Log[k].node)[i] = Ref(b[1])
                            => <<Log[k].templateContents[i]>> = b[2]

\* a site resolved against a binding of an earlier site that an outer binding
\* of the same name competes with, in a file where a name is declared twice
C8_Witness ==
    \E k \in 1..Len(Log) :
        /\ Log[k].evaluated
        /\ "templateContents" \in DOMAIN Log[k]
        /\ \E b \in Bindings(Log[k].generatedClasses) :
              /\ \E i \in 1..Len(Between(Log[k].node)) : Between(Log[k].node)[i] = Ref(b[1])
              /\ \E i \in 1..Len(Log[k].inlinedVars) : Log[k].inlinedVars[i].name = b[1]
        /\ Cardinality(NamedBefore(Log, k)) > Cardinality(ExpectedBindings(Log, k))

\* ------------------------------------------------------------------ processCss on its own

Alphabet == {Ch("@import"), Ch("@use"), Ch("a"), Ch(" "), Ch("\n"), Ch("\r")}

InitCss ==
    /\ cssList = <<>>
    /\ viteConfigObj = NoValue
    /\ options = [evaluateExpressions |-> TRUE, resolveImports |-> FALSE]
    /\ tasks = <<>>
    /\ last = [op |-> "ecsstatic"]
    /\ started = 0
    /\ writes = {}
    /\ hashTrims \in BOOLEAN
    /\ probe \in {[templateContents |-> b, originalName |-> n, isScss |-> d] :
                     b \in SeqsUpTo(Alphabet, MaxLen), n \in {"B", Balloon},
                     d \in BOOLEAN}

processCssCall ==
    /\ "out" \notin DOMAIN probe
    /\ probe' = probe @@
                [out |-> processCss(probe.templateContents, probe.originalName,
                                    probe.isScss)]
    /\ UNCHANGED <<hashTrims, cssList, viteConfigObj, options, tasks, last, started, writes>>

NextCss == processCssCall

SpecCss == InitCss /\ [][NextCss]_vars

\* a line whose first token after white space is @import or @use
IsDirectiveLine(line) ==
    \E i \in 1..Len(line) :
        /\ line[i] \in {Ch("@import"), Ch("@use")}
        /\ \A j \in 1..(i - 1) : line[j] \in {Ch(" "), Ch("\n"), Ch("\r")}

IsOtherLine(line) == ~IsDirectiveLine(line)

TrimEach(lines) == [i \in 1..Len(lines) |-> trim(lines[i])]

\* the lines of a text, none for the empty text
LinesOf(text) == IF text = <<>> THEN <<>> ELSE split(text)

\* C7: the assembled stylesheet is the directive lines of the body in their
\* order, a line break, then the rule .<prefix>-<hash>{...} holding the other
\* lines in their order; the hash is that of the whole body.
C7_DirectivesFirst ==
    ("out" \in DOMAIN probe /\ ~probe.out.threw) =>
        LET text == probe.out.unprocessedCss
            lines == split(probe.templateContents)
            k == CHOOSE i \in 1..Len(text) : "cls" \in DOMAIN text[i]
            head == SubSeq(text, 1, k - 3)
            body == SubSeq(text, k + 2, Len(text) - 1)
        IN  /\ Cardinality({i \in 1..Len(text) : "cls" \in DOMAIN text[i]}) = 1
            /\ k >= 3 /\ k + 2 <= Len(text)
            /\ text[k - 2] = Ch("\n") /\ text[k - 1] = Ch(".")
            /\ text[k + 1] = Ch("{") /\ text[Len(text)] = Ch("}")
            /\ text[k].cls = [prefix |-> probe.originalName,
                              hash |-> hash(probe.templateContents)]
            /\ probe.out.className = text[k].cls
            /\ TrimEach(LinesOf(head)) = TrimEach(SelectSeq(lines, IsDirectiveLine))
            /\ \/ split(body) = SelectSeq(lines, IsOtherLine)
               \/ body = <<>> /\ SelectSeq(lines, IsOtherLine) = <<>>

\* a body with a directive line after another line, the directive indented
C7_Witness ==
    /\ "out" \in DOMAIN probe
    /\ ~probe.out.threw
    /\ LET lines == split(probe.templateContents)
       IN  /\ Len(lines) >= 2
           /\ ~IsDirectiveLine(lines[1])
           /\ lines[1] # <<>>
           /\ IsDirectiveLine(lines[2])
           /\ lines[2][1] = Ch(" ")

\* ------------------------------------------------------------------ the locator on its own

MemberTag == [type |-> "MemberExpression"]
PatternCtx == [type |-> "VariableDeclarator", idType |-> "ArrayPattern", isInit |-> TRUE]

Leaves ==
    {Expr(t, c, <<Ch("a")>>) :
        t \in {Tag("css"), Tag("x"), MemberTag},
        c \in {VarCtx("B"), PropCtx("b", "Identifier", TRUE), PropCtx("b", "Literal", TRUE),
               PropCtx("b", "Identifier", FALSE), PatternCtx, OtherCtx}}

Nesting ==
    {Expr(t, VarCtx("B"), <<Tpl(e), Ch("a")>>) : t \in {Tag("css"), Tag("x")}, e \in Leaves}
    \cup {Expr(Tag("scss"), OtherCtx,
               <<Tpl(Expr(Tag("css"), OtherCtx, <<Tpl(PlainB)>>)), Tpl(PlainAnon)>>)}

Trees ==
    {[imports |-> i, body |-> b] :
        i \in {ImportBoth, ImportNone}, b \in SeqsUpTo(Leaves \cup Nesting, MaxSites)}

InitLocate ==
    /\ cssList = <<>>
    /\ viteConfigObj = NoValue
    /\ options = [evaluateExpressions |-> TRUE, resolveImports |-> FALSE]
    /\ tasks = <<>>
    /\ last = [op |-> "ecsstatic"]
    /\ started = 0
    /\ writes = {}
    /\ hashTrims \in BOOLEAN
    /\ probe \in {[ast |-> t, tagNames |-> n] :
                     t \in Trees, n \in {{"css"}, {"css", "scss"}}}

findCssTaggedTemplateLiteralsCall ==
    /\ "out" \notin DOMAIN probe
    /\ probe' = probe @@ [out |-> findCssTaggedTemplateLiterals(probe.ast, probe.tagNames)]
    /\ UNCHANGED <<hashTrims, cssList, viteConfigObj, options, tasks, last, started, writes>>

NextLocate == findCssTaggedTemplateLiteralsCall

SpecLocate == InitLocate /\ [][NextLocate]_vars

Found == IF "out" \in DOMAIN probe /\ "ast" \in DOMAIN probe THEN probe.out ELSE <<>>

Inside(n, m) == m.start < n.start /\ n.end <= m.end

RECURSIVE CountIn(_, _)
CountIn(q, names) ==
    IF q = <<>> THEN 0
    ELSE (IF "tt" \in DOMAIN Head(q)
          THEN (IF Head(q).tt.tag.type = "Identifier" /\ Head(q).tt.tag.name \in names
                THEN 1 ELSE 0) + CountIn(Head(q).tt.quasi, names)
          ELSE 0)
         + CountIn(Tail(q), names)

====
